---- MODULE Spec2Model ----
(***************************************************************************)
(* A model of pdf_to_markdown_app.py: the PDF -> text -> cleaned text ->    *)
(* Markdown pipeline (process_pdf / main), its two extractors, and the      *)
(* text cleaner (remove_page_headers, clean_extracted_text,                 *)
(* split_concatenated_words).                                               *)
(*                                                                         *)
(* A text is a sequence of one-character strings.  The regular expressions *)
(* of the cleaner are modelled by what Python's re module does with them   *)
(* (leftmost, greedy, non-overlapping matches).                            *)
(***************************************************************************)
EXTENDS Integers, Sequences, FiniteSets, TLC

VARIABLES
    pc,                 \* position of main / process_pdf
    runs,               \* number of invocations started in this process
    enable_ocr,         \* sidebar: "Enable OCR"
    tesseract_cmd_path, \* sidebar: "Tesseract Command Path" ("" when not given)
    show_logs,          \* sidebar: "Show OCR Logs"
    split_words,        \* sidebar: "Split concatenated words"
    doc,                \* the uploaded PDF: one entry per physical page
    tmp_file,           \* the NamedTemporaryFile of this invocation exists on disk
    temp_dir,           \* the TemporaryDirectory of extract_text_ocr exists on disk
    leaked,             \* temporary files left on disk by earlier invocations
    tesseract_cmd,      \* pytesseract.pytesseract.tesseract_cmd (module global)
    i,                  \* loop index of the running extractor (0-based, as enumerate)
    text,               \* the extractor's local accumulator
    extracted_text,     \* what process_pdf returned to main
    cleaned_text,       \* main: cleaned_text
    markdown_text,      \* main: markdown_text
    notes,              \* notifications shown (st.error / st.warning / sidebar info)
    calls,              \* calls made to the recognition engine: page and command
    extractor,          \* which extractor this invocation called
    doc_fault,          \* a document-level fault was caught in this invocation
    c_pc,               \* cleaner harness: position
    c_flag,             \* cleaner harness: split_words
    c_ninja,            \* cleaner harness: wordninja importable
    c_cut,              \* cleaner harness: where wordninja cuts a long token
    c_in,               \* cleaner harness: input text
    c_out,              \* cleaner harness: clean_extracted_text(input)
    c_out2,             \* cleaner harness: clean_extracted_text(output)
    c_hdr               \* cleaner harness: remove_page_headers(input)

pvars == <<pc, runs, enable_ocr, tesseract_cmd_path, show_logs, split_words, doc,
           tmp_file, temp_dir, leaked, tesseract_cmd, i, text, extracted_text,
           cleaned_text, markdown_text, notes, calls, extractor, doc_fault>>
cvars == <<c_pc, c_flag, c_ninja, c_cut, c_in, c_out, c_out2, c_hdr>>
vars == <<pvars, cvars>>

(***************************************************************************)
(* Bounds of the model.                                                    *)
(***************************************************************************)
MaxPages == 3
MaxRuns == 2
MaxPieces == 3

(***************************************************************************)
(* Characters.                                                             *)
(***************************************************************************)
DigitChars == <<"0", "1", "2", "3", "4", "5", "6", "7", "8", "9">>
Digit == {DigitChars[k] : k \in 1..Len(DigitChars)}
Upper == {"A", "B", "C", "D", "E", "F", "G", "H", "I", "J", "K", "L", "M",
          "N", "O", "P", "Q", "R", "S", "T", "U", "V", "W", "X", "Y", "Z"}
Lower == {"a", "b", "c", "d", "e", "f", "g", "h", "i", "j", "k", "l", "m",
          "n", "o", "p", "q", "r", "s", "t", "u", "v", "w", "x", "y", "z"}
\* \w of re
WordChar == Digit \cup Upper \cup Lower \cup {"_"}
\* \s of re, and what str.strip() and str.split() treat as whitespace
Space == {" ", "\t", "\n", "\r", "\f"}
\* the line boundaries of str.splitlines() among the characters modelled
LineBreak == {"\n", "\r", "\f"}

None == <<"None">>

(***************************************************************************)
(* Text helpers.                                                           *)
(***************************************************************************)
RECURSIVE Join(_, _)
\* sep.join(parts)
Join(parts, sep) ==
    IF parts = <<>> THEN <<>>
    ELSE IF Len(parts) = 1 THEN parts[1]
    ELSE parts[1] \o sep \o Join(Tail(parts), sep)

RECURSIVE LStrip(_)
LStrip(t) == IF t # <<>> /\ Head(t) \in Space THEN LStrip(Tail(t)) ELSE t

RECURSIVE RStrip(_)
RStrip(t) ==
    IF t # <<>> /\ t[Len(t)] \in Space THEN RStrip(SubSeq(t, 1, Len(t) - 1)) ELSE t

\* str.strip()
Strip(t) == RStrip(LStrip(t))

\* every character of t[a..b] is in class S (true of an empty range)
AllIn(t, a, b, S) == \A k \in a..b : t[k] \in S

RECURSIVE SplitLinesFrom(_, _, _)
SplitLinesFrom(t, k, cur) ==
    IF k > Len(t) THEN (IF cur = <<>> THEN <<>> ELSE <<cur>>)
    ELSE IF t[k] \in LineBreak
         THEN LET skip == IF t[k] = "\r" /\ k < Len(t) /\ t[k + 1] = "\n"
                          THEN 2 ELSE 1
              IN  <<cur>> \o SplitLinesFrom(t, k + skip, <<>>)
         ELSE SplitLinesFrom(t, k + 1, Append(cur, t[k]))

\* str.splitlines(): no empty last line after a final line break
SplitLines(t) == SplitLinesFrom(t, 1, <<>>)

RECURSIVE SplitWsFrom(_, _, _)
SplitWsFrom(t, k, cur) ==
    IF k > Len(t) THEN (IF cur = <<>> THEN <<>> ELSE <<cur>>)
    ELSE IF t[k] \in Space
         THEN (IF cur = <<>> THEN <<>> ELSE <<cur>>) \o SplitWsFrom(t, k + 1, <<>>)
         ELSE SplitWsFrom(t, k + 1, Append(cur, t[k]))

\* str.split(): the maximal runs of non-whitespace characters
SplitWs(t) == SplitWsFrom(t, 1, <<>>)

(***************************************************************************)
(* remove_page_headers                                                     *)
(***************************************************************************)
YearDigits == 4

\* a variant of IsHeader whose last number may have any length (\d+ for \d{4})
IsHeader_AnyYearLength(line) ==
    LET s == Strip(line)
        n == Len(s)
    IN  \E p \in 2..n : \E q \in (p + 2)..n : \E y \in (q + 1)..n :
            /\ s[p] = "/"
            /\ AllIn(s, 1, p - 1, Digit)
            /\ AllIn(s, p + 1, q - 1, Digit)
            /\ AllIn(s, q, y - 1, Space)
            /\ AllIn(s, y, n, Digit)

\* re.match(r'^\s*\d+/\d+\s+\d{4}\s*$', line)
IsHeader(line) ==
    LET s == Strip(line)
        n == Len(s)
    IN  \E p \in 2..n : \E q \in (p + 2)..n :
            /\ s[p] = "/"
            /\ AllIn(s, 1, p - 1, Digit)
            /\ AllIn(s, p + 1, q - 1, Digit)
            /\ q <= n - YearDigits
            /\ AllIn(s, q, n - YearDigits, Space)
            /\ AllIn(s, n - YearDigits + 1, n, Digit)

NotHeader(line) == ~IsHeader(line)

remove_page_headers(t) == Join(SelectSeq(SplitLines(t), NotHeader), <<"\n">>)

(***************************************************************************)
(* clean_extracted_text                                                    *)
(***************************************************************************)
\* the last index of the run of word characters that starts at k
RECURSIVE WordRunEnd(_, _)
WordRunEnd(t, k) ==
    IF k < Len(t) /\ t[k + 1] \in WordChar THEN WordRunEnd(t, k + 1) ELSE k

RECURSIVE FixHyphensFrom(_, _, _)
\* k scans the text; floor is the first index a match may start at (the
\* characters before it were consumed by the previous match)
FixHyphensFrom(t, k, floor) ==
    IF k > Len(t) THEN <<>>
    ELSE IF /\ t[k] = "-"
            /\ k + 2 <= Len(t)
            /\ t[k + 1] = "\n"
            /\ t[k + 2] \in WordChar
            /\ k - 1 >= floor
            /\ t[k - 1] \in WordChar
         THEN LET f == WordRunEnd(t, k + 2)
              IN  SubSeq(t, k + 2, f) \o FixHyphensFrom(t, f + 1, f + 1)
         ELSE <<t[k]>> \o FixHyphensFrom(t, k + 1, floor)

\* re.sub(r'(\w+)-\n(\w+)', r'\1\2', text)
FixHyphens(t) == FixHyphensFrom(t, 1, 1)

RECURSIVE InsertSpaceBetween(_, _, _)
\* a space between every character of class A and a character of class B
\* that follows it immediately
InsertSpaceBetween(t, A, B) ==
    IF Len(t) < 2 THEN t
    ELSE IF t[1] \in A /\ t[2] \in B
         THEN <<t[1], " ">> \o InsertSpaceBetween(Tail(t), A, B)
         ELSE <<t[1]>> \o InsertSpaceBetween(Tail(t), A, B)

\* re.sub(r'\.([A-Z])', r'. \1', text)
FixPeriods(t) == InsertSpaceBetween(t, {"."}, Upper)

\* re.sub(r'([a-z])([A-Z])', r'\1 \2', para)
FixCase(t) == InsertSpaceBetween(t, Lower, Upper)

\* the last index of the run of whitespace that starts right after k
RECURSIVE SpaceRunEnd(_, _)
SpaceRunEnd(t, k) ==
    IF k < Len(t) /\ t[k + 1] \in Space THEN SpaceRunEnd(t, k + 1) ELSE k

RECURSIVE SplitParagraphsFrom(_, _, _)
SplitParagraphsFrom(t, k, cur) ==
    IF k > Len(t) THEN <<cur>>
    ELSE IF t[k] = "\n"
         THEN LET e == SpaceRunEnd(t, k)
                  ends == {m \in (k + 1)..e : t[m] = "\n"}
              IN  IF ends = {}
                  THEN SplitParagraphsFrom(t, k + 1, Append(cur, t[k]))
                  ELSE LET l == CHOOSE m \in ends : \A m2 \in ends : m2 <= m
                       IN  <<cur>> \o SplitParagraphsFrom(t, l + 1, <<>>)
         ELSE SplitParagraphsFrom(t, k + 1, Append(cur, t[k]))

\* re.split(r'\n\s*\n', text)
SplitParagraphs(t) == SplitParagraphsFrom(t, 1, <<>>)

\* para.replace("\n", " ")
NewlinesToSpaces(t) == [k \in 1..Len(t) |-> IF t[k] = "\n" THEN " " ELSE t[k]]

CleanParagraph(para) == FixCase(Strip(NewlinesToSpaces(para)))

MaxTokenLen == 15

\* wordninja.split(word): the library is not part of the repository; cut is
\* the place its dictionary cuts the word at (0: it returns the word whole)
wordninja_split(word, cut) ==
    IF cut > 0 /\ cut < Len(word)
    THEN <<SubSeq(word, 1, cut), SubSeq(word, cut + 1, Len(word))>>
    ELSE <<word>>

SplitWord(word, cut) ==
    IF Len(word) > MaxTokenLen
    THEN LET split_word == wordninja_split(word, cut)
         IN  IF Len(split_word) > 1 /\ Join(split_word, <<" ">>) # word
             THEN Join(split_word, <<" ">>)
             ELSE word
    ELSE word

\* installed: "import wordninja" succeeds
split_concatenated_words(t, installed, cut) ==
    IF ~installed THEN t
    ELSE LET words == SplitWs(t)
         IN  Join([k \in 1..Len(words) |-> SplitWord(words[k], cut)], <<" ">>)

\* a variant of JoinParagraphs with a single line break between paragraphs
JoinParagraphs_SingleBreak(paras) == Join(paras, <<"\n">>)

\* "\n\n".join(cleaned_paragraphs)
JoinParagraphs(paras) == Join(paras, <<"\n", "\n">>)

clean_extracted_text(t, flag, installed, cut) ==
    LET t1 == remove_page_headers(t)
        t2 == FixHyphens(t1)
        t3 == FixPeriods(t2)
        paragraphs == SplitParagraphs(t3)
        cleaned_paragraphs ==
            [k \in 1..Len(paragraphs) |-> CleanParagraph(paragraphs[k])]
        joined == JoinParagraphs(cleaned_paragraphs)
    IN  IF flag THEN split_concatenated_words(joined, installed, cut) ELSE joined

\* markdownify's md(text, heading_style="ATX"): the library is not part of
\* the repository; its result is kept as an uninterpreted term over its input
convert_to_markdown(t) == <<"md(ATX)">> \o t

(***************************************************************************)
(* Extraction output: "Page N" blocks.                                     *)
(***************************************************************************)
RECURSIVE Str(_)
\* str(n) of a natural number
Str(n) == IF n < 10 THEN <<DigitChars[n + 1]>>
          ELSE Str(n \div 10) \o <<DigitChars[(n % 10) + 1]>>

PageHeading == <<"#", " ", "P", "a", "g", "e", " ">>

\* f"\n\n# Page {n}\n\n{page_text}"
PageBlock(n, page_text) ==
    <<"\n", "\n">> \o PageHeading \o Str(n) \o <<"\n", "\n">> \o page_text

\* what a page can give the extractor that reads it: text with non-whitespace
\* characters, whitespace only, nothing, or a fault raised while it is read
PageKinds == {"text", "blank", "empty", "fault"}

PageText(kind) ==
    CASE kind = "text" -> <<"a">>
      [] kind = "blank" -> <<" ">>
      [] OTHER -> <<>>

Docs == UNION {[1..n -> PageKinds] : n \in 0..MaxPages}

DefaultCmd == "tesseract"
CmdPaths == {"", "/opt/tesseract"}

Note(kind, page) == [kind |-> kind, page |-> page]

\* log_info(message)
log_info(ns, kind, page) == IF show_logs THEN Append(ns, Note(kind, page)) ELSE ns

\* a variant of PlumberKeeps without the test
PlumberKeeps_EveryPage(page_text) == TRUE

\* "if page_text:" of extract_text_pdfplumber
PlumberKeeps(page_text) == page_text # <<>>

\* a variant of TextAfterFault that drops what was read (all or nothing)
TextAfterFault_Discard(t) == <<>>

\* extract_text_pdfplumber returns the text accumulated before the fault
TextAfterFault(t) == t

\* a variant of NextIndexAfterOcrFault that leaves the loop (break)
NextIndexAfterOcrFault_Break(k) == Len(doc)

\* "continue" of the page loop of extract_text_ocr
NextIndexAfterOcrFault(k) == k + 1

\* "if tesseract_cmd_path: pytesseract.pytesseract.tesseract_cmd = ..."
CmdAfterConfig(cmd, path) == IF path # "" THEN path ELSE cmd

\* a variant of IsEmptyResult that lets every text through
IsEmptyResult_Never(t) == FALSE

\* "extracted_text.strip()" is empty
IsEmptyResult(t) == Strip(t) = <<>>

(***************************************************************************)
(* The pipeline: main and process_pdf.                                     *)
(***************************************************************************)
Ended == {"done", "noresult", "raised"}
\* process_pdf has returned to main
Returned == {"cleaning", "converting", "done", "noresult"}
\* process_pdf is running and its temporary file has been written
InTry == {"select", "open", "pages", "raster", "ocr_pages"}

CleanerIdle ==
    /\ c_pc = "off"
    /\ c_flag = FALSE
    /\ c_ninja = FALSE
    /\ c_cut = 0
    /\ c_in = <<>>
    /\ c_out = None
    /\ c_out2 = None
    /\ c_hdr = None

PipelineIdle ==
    /\ pc = "idle"
    /\ runs = 0
    /\ enable_ocr = FALSE
    /\ tesseract_cmd_path = ""
    /\ show_logs = TRUE
    /\ split_words = TRUE
    /\ doc = <<>>
    /\ tmp_file = FALSE
    /\ temp_dir = FALSE
    /\ leaked = 0
    /\ tesseract_cmd = DefaultCmd
    /\ i = 0
    /\ text = <<>>
    /\ extracted_text = None
    /\ cleaned_text = None
    /\ markdown_text = None
    /\ notes = <<>>
    /\ calls = <<>>
    /\ extractor = "none"
    /\ doc_fault = FALSE

Init == PipelineIdle /\ CleanerIdle

\* The script's run is over; the page waits for the next interaction.  The
\* Python process, its imported modules and the files on disk stay.
Rerun ==
    /\ pc \in Ended
    /\ runs < MaxRuns
    /\ leaked' = leaked + (IF tmp_file THEN 1 ELSE 0)
    /\ pc' = "idle"
    /\ enable_ocr' = FALSE
    /\ tesseract_cmd_path' = ""
    /\ show_logs' = TRUE
    /\ split_words' = TRUE
    /\ doc' = <<>>
    /\ tmp_file' = FALSE
    /\ temp_dir' = FALSE
    /\ i' = 0
    /\ text' = <<>>
    /\ extracted_text' = None
    /\ cleaned_text' = None
    /\ markdown_text' = None
    /\ notes' = <<>>
    /\ calls' = <<>>
    /\ extractor' = "none"
    /\ doc_fault' = FALSE
    /\ UNCHANGED <<runs, tesseract_cmd, cvars>>

\* The script runs with the sidebar's values and an uploaded file: main calls
\* process_pdf, which creates its NamedTemporaryFile(delete=False).
Upload ==
    /\ pc = "idle"
    /\ runs < MaxRuns
    /\ \E d \in Docs, ocr \in BOOLEAN, path \in CmdPaths,
          logs \in BOOLEAN, split \in BOOLEAN :
        /\ doc' = d
        /\ enable_ocr' = ocr
        /\ tesseract_cmd_path' = path
        /\ show_logs' = logs
        /\ split_words' = split
    /\ runs' = runs + 1
    /\ tmp_file' = TRUE
    /\ pc' = "write"
    /\ UNCHANGED <<temp_dir, leaked, tesseract_cmd, i, text, extracted_text,
                   cleaned_text, markdown_text, notes, calls, extractor,
                   doc_fault, cvars>>

\* tmp_file.write(file_bytes) succeeds; the with block closes the file
WriteOk ==
    /\ pc = "write"
    /\ pc' = "select"
    /\ UNCHANGED <<runs, enable_ocr, tesseract_cmd_path, show_logs, split_words,
                   doc, tmp_file, temp_dir, leaked, tesseract_cmd, i, text,
                   extracted_text, cleaned_text, markdown_text, notes, calls,
                   extractor, doc_fault, cvars>>

\* tmp_file.write(file_bytes) raises (disk full, I/O error): the with block
\* closes the file, which was created with delete=False, and the exception
\* leaves process_pdf before its try/finally is entered
WriteFails ==
    /\ pc = "write"
    /\ pc' = "raised"
    /\ UNCHANGED <<runs, enable_ocr, tesseract_cmd_path, show_logs, split_words,
                   doc, tmp_file, temp_dir, leaked, tesseract_cmd, i, text,
                   extracted_text, cleaned_text, markdown_text, notes, calls,
                   extractor, doc_fault, cvars>>

\* "if enable_ocr:" of process_pdf, and the start of the extractor it calls
SelectExtractor ==
    /\ pc = "select"
    /\ IF enable_ocr
       THEN /\ notes' = log_info(notes, "info_using_ocr", 0)
            /\ extractor' = "ocr"
            /\ tesseract_cmd' = CmdAfterConfig(tesseract_cmd, tesseract_cmd_path)
            /\ temp_dir' = TRUE
            /\ pc' = "raster"
       ELSE /\ notes' = log_info(notes, "info_using_pdfplumber", 0)
            /\ extractor' = "pdfplumber"
            /\ UNCHANGED <<tesseract_cmd, temp_dir>>
            /\ pc' = "open"
    /\ UNCHANGED <<runs, enable_ocr, tesseract_cmd_path, show_logs, split_words,
                   doc, tmp_file, leaked, i, text, extracted_text, cleaned_text,
                   markdown_text, calls, doc_fault, cvars>>

\* pdfplumber.open(pdf_file): the document opens, or it is unreadable and the
\* exception is caught by extract_text_pdfplumber
PlumberOpen ==
    /\ pc = "open"
    /\ \E ok \in BOOLEAN :
        IF ok
        THEN /\ pc' = "pages"
             /\ UNCHANGED <<notes, doc_fault, text>>
        ELSE /\ notes' = Append(notes, Note("error_pdfplumber", 0))
             /\ doc_fault' = TRUE
             /\ text' = TextAfterFault(text)
             /\ pc' = "finally"
    /\ UNCHANGED <<runs, enable_ocr, tesseract_cmd_path, show_logs, split_words,
                   doc, tmp_file, temp_dir, leaked, tesseract_cmd, i,
                   extracted_text, cleaned_text, markdown_text, calls, extractor,
                   cvars>>

\* one iteration of "for page_num, page in enumerate(pdf.pages, start=1)"
PlumberPage ==
    /\ pc = "pages"
    /\ i < Len(doc)
    /\ IF doc[i + 1] = "fault"
       THEN /\ notes' = Append(notes, Note("error_pdfplumber", i + 1))
            /\ doc_fault' = TRUE
            /\ text' = TextAfterFault(text)
            /\ pc' = "finally"
            /\ UNCHANGED i
       ELSE /\ text' = IF PlumberKeeps(PageText(doc[i + 1]))
                       THEN text \o PageBlock(i + 1, PageText(doc[i + 1]))
                       ELSE text
            /\ i' = i + 1
            /\ UNCHANGED <<notes, doc_fault, pc>>
    /\ UNCHANGED <<runs, enable_ocr, tesseract_cmd_path, show_logs, split_words,
                   doc, tmp_file, temp_dir, leaked, tesseract_cmd,
                   extracted_text, cleaned_text, markdown_text, calls, extractor,
                   cvars>>

\* the page loop is over: extract_text_pdfplumber returns text
PlumberDone ==
    /\ pc = "pages"
    /\ i = Len(doc)
    /\ pc' = "finally"
    /\ UNCHANGED <<runs, enable_ocr, tesseract_cmd_path, show_logs, split_words,
                   doc, tmp_file, temp_dir, leaked, tesseract_cmd, i, text,
                   extracted_text, cleaned_text, markdown_text, notes, calls,
                   extractor, doc_fault, cvars>>

\* convert_from_path(pdf_file, dpi=ocr_dpi, ...): one image per page, or an
\* exception (whatever the document and the resolution), on which
\* extract_text_ocr reports the error and returns "" (leaving the with block)
Rasterize ==
    /\ pc = "raster"
    /\ \E ok \in BOOLEAN :
        IF ok
        THEN /\ pc' = "ocr_pages"
             /\ UNCHANGED <<notes, doc_fault, temp_dir, text>>
        ELSE /\ notes' = Append(notes, Note("error_converting", 0))
             /\ doc_fault' = TRUE
             /\ temp_dir' = FALSE
             /\ text' = <<>>
             /\ pc' = "finally"
    /\ UNCHANGED <<runs, enable_ocr, tesseract_cmd_path, show_logs, split_words,
                   doc, tmp_file, leaked, tesseract_cmd, i, extracted_text,
                   cleaned_text, markdown_text, calls, extractor, cvars>>

\* one iteration of "for i, image in enumerate(images)"
OcrPage ==
    /\ pc = "ocr_pages"
    /\ i < Len(doc)
    /\ calls' = Append(calls, [page |-> i + 1, cmd |-> tesseract_cmd])
    /\ IF doc[i + 1] = "fault"
       THEN /\ notes' = Append(log_info(notes, "info_ocr_page", i + 1),
                               Note("error_ocr", i + 1))
            /\ i' = NextIndexAfterOcrFault(i)
            /\ UNCHANGED text
       ELSE /\ notes' = log_info(notes, "info_ocr_page", i + 1)
            /\ text' = text \o PageBlock(i + 1, PageText(doc[i + 1]))
            /\ i' = i + 1
    /\ UNCHANGED <<pc, runs, enable_ocr, tesseract_cmd_path, show_logs,
                   split_words, doc, tmp_file, temp_dir, leaked, tesseract_cmd,
                   extracted_text, cleaned_text, markdown_text, extractor,
                   doc_fault, cvars>>

\* the image loop is over: the with block removes the temporary directory and
\* extract_text_ocr returns text
OcrDone ==
    /\ pc = "ocr_pages"
    /\ i = Len(doc)
    /\ temp_dir' = FALSE
    /\ pc' = "finally"
    /\ UNCHANGED <<runs, enable_ocr, tesseract_cmd_path, show_logs, split_words,
                   doc, tmp_file, leaked, tesseract_cmd, i, text, extracted_text,
                   cleaned_text, markdown_text, notes, calls, extractor,
                   doc_fault, cvars>>

\* an exception that no "except Exception" of the extractors catches (a
\* KeyboardInterrupt, the script being stopped) is raised inside the try block:
\* the with block of extract_text_ocr and the finally of process_pdf run
Interrupt ==
    /\ pc \in InTry
    /\ temp_dir' = FALSE
    /\ tmp_file' = FALSE
    /\ pc' = "raised"
    /\ UNCHANGED <<runs, enable_ocr, tesseract_cmd_path, show_logs, split_words,
                   doc, leaked, tesseract_cmd, i, text, extracted_text,
                   cleaned_text, markdown_text, notes, calls, extractor,
                   doc_fault, cvars>>

\* the finally block of process_pdf, its return, and "if extracted_text:" of main
ProcessReturns ==
    /\ pc = "finally"
    /\ tmp_file' = FALSE
    /\ IF IsEmptyResult(text)
       THEN /\ extracted_text' = None
            /\ notes' = Append(notes, Note("error_no_text", 0))
            /\ pc' = "noresult"
       ELSE /\ extracted_text' = text
            /\ pc' = "cleaning"
            /\ UNCHANGED notes
    /\ UNCHANGED <<runs, enable_ocr, tesseract_cmd_path, show_logs, split_words,
                   doc, temp_dir, leaked, tesseract_cmd, i, text, cleaned_text,
                   markdown_text, calls, extractor, doc_fault, cvars>>

CutChoices == {0, 8}

\* cleaned_text = clean_extracted_text(extracted_text)
Clean ==
    /\ pc = "cleaning"
    /\ \E installed \in BOOLEAN, cut \in CutChoices :
        /\ cleaned_text' =
               clean_extracted_text(extracted_text, split_words, installed, cut)
        /\ notes' = IF split_words /\ ~installed
                    THEN Append(notes, Note("warning_wordninja", 0))
                    ELSE notes
    /\ pc' = "converting"
    /\ UNCHANGED <<runs, enable_ocr, tesseract_cmd_path, show_logs, split_words,
                   doc, tmp_file, temp_dir, leaked, tesseract_cmd, i, text,
                   extracted_text, markdown_text, calls, extractor, doc_fault,
                   cvars>>

\* markdown_text = convert_to_markdown(cleaned_text), then the preview and
\* the download button
Convert ==
    /\ pc = "converting"
    /\ markdown_text' = convert_to_markdown(cleaned_text)
    /\ pc' = "done"
    /\ UNCHANGED <<runs, enable_ocr, tesseract_cmd_path, show_logs, split_words,
                   doc, tmp_file, temp_dir, leaked, tesseract_cmd, i, text,
                   extracted_text, cleaned_text, notes, calls, extractor,
                   doc_fault, cvars>>

Next ==
    \/ Rerun
    \/ Upload
    \/ WriteOk
    \/ WriteFails
    \/ SelectExtractor
    \/ PlumberOpen
    \/ PlumberPage
    \/ PlumberDone
    \/ Rasterize
    \/ OcrPage
    \/ OcrDone
    \/ Interrupt
    \/ ProcessReturns
    \/ Clean
    \/ Convert

Spec == Init /\ [][Next]_vars

(***************************************************************************)
(* The cleaner on its own: remove_page_headers and clean_extracted_text    *)
(* applied to every text built from at most MaxPieces pieces.              *)
(***************************************************************************)
LongWord == <<"c", "o", "n", "c", "a", "t", "e", "n", "a", "t", "e", "d",
              "w", "o", "r", "d">>

\* a page-number line as it comes out of an extractor, with its leading blank
HeaderLine == <<" ", "1", "/", "1", " ", "2", "0", "2", "4">>

Pieces == {<<"1", "/", "1">>, <<"2", "0", "2", "4">>, HeaderLine, <<" ">>,
           <<"\n">>, <<"\n", "\n">>, <<"a">>, <<"B">>, <<".">>, <<"-", "\n">>,
           LongWord}

Inputs == {Join(ps, <<>>) : ps \in UNION {[1..n -> Pieces] : n \in 0..MaxPieces}}

InitClean ==
    /\ PipelineIdle
    /\ c_pc = "start"
    /\ c_flag = FALSE
    /\ c_ninja = FALSE
    /\ c_cut = 0
    /\ c_in \in Inputs
    /\ c_out = None
    /\ c_out2 = None
    /\ c_hdr = None

\* remove_page_headers(text)
RemoveHeaders ==
    /\ c_pc = "start"
    /\ c_hdr' = remove_page_headers(c_in)
    /\ c_pc' = "filtered"
    /\ UNCHANGED <<c_flag, c_ninja, c_cut, c_in, c_out, c_out2, pvars>>

\* clean_extracted_text(text), under some setting of split_words and some
\* behaviour of wordninja
CleanFirst ==
    /\ c_pc = "filtered"
    /\ \E flag \in BOOLEAN, installed \in BOOLEAN, cut \in CutChoices :
        /\ flag \/ (~installed /\ cut = 0)
        /\ installed \/ cut = 0
        /\ c_flag' = flag
        /\ c_ninja' = installed
        /\ c_cut' = cut
        /\ c_out' = clean_extracted_text(c_in, flag, installed, cut)
    /\ c_pc' = "cleaned"
    /\ UNCHANGED <<c_in, c_out2, c_hdr, pvars>>

\* clean_extracted_text applied to its own output, under the same setting
CleanAgain ==
    /\ c_pc = "cleaned"
    /\ c_out2' = clean_extracted_text(c_out, c_flag, c_ninja, c_cut)
    /\ c_pc' = "recleaned"
    /\ UNCHANGED <<c_flag, c_ninja, c_cut, c_in, c_out, c_hdr, pvars>>

NextClean ==
    \/ RemoveHeaders
    \/ CleanFirst
    \/ CleanAgain

SpecClean == InitClean /\ [][NextClean]_vars

(***************************************************************************)
(* Reading an extraction output back: the "Page N" headings it contains.   *)
(***************************************************************************)
DigitValue(c) == CHOOSE v \in 0..9 : DigitChars[v + 1] = c

RECURSIVE ParseNat(_)
ParseNat(ds) ==
    IF ds = <<>> THEN 0
    ELSE 10 * ParseNat(SubSeq(ds, 1, Len(ds) - 1)) + DigitValue(ds[Len(ds)])

IsHeadingLine(line) ==
    /\ Len(line) > Len(PageHeading)
    /\ SubSeq(line, 1, Len(PageHeading)) = PageHeading
    /\ AllIn(line, Len(PageHeading) + 1, Len(line), Digit)

\* the page numbers of the "# Page N" heading lines of t, in order
PageNumbers(t) ==
    LET heads == SelectSeq(SplitLines(t), IsHeadingLine)
    IN  [k \in 1..Len(heads) |->
            ParseNat(SubSeq(heads[k], Len(PageHeading) + 1, Len(heads[k])))]

RECURSIVE IndicesIn(_, _, _)
\* the indices k..Len(d) of the pages of d whose kind is in S, increasing
IndicesIn(d, k, S) ==
    IF k > Len(d) THEN <<>>
    ELSE (IF d[k] \in S THEN <<k>> ELSE <<>>) \o IndicesIn(d, k + 1, S)

CountNotes(kind, page) ==
    Cardinality({k \in 1..Len(notes) : notes[k] = Note(kind, page)})

AllWhitespace(t) == AllIn(t, 1, Len(t), Space)

ExtractionOver == {"finally"} \cup Returned

(***************************************************************************)
(* Claims about the pipeline (specification Spec, FairSpec).               *)
(***************************************************************************)

\* C1: on every exit path of one process_pdf invocation (it returned or it
\* raised), the temporary PDF file and the temporary image directory of that
\* invocation no longer exist.  Violated: an exception raised by
\* tmp_file.write leaves the file on disk.
C1_TemporariesRemoved ==
    pc \in Returned \cup {"raised"} => ~tmp_file /\ ~temp_dir

\* C2: in both modes, if no page of the document yields non-whitespace text,
\* process_pdf returns None and the pipeline produces no Markdown.  Violated:
\* a page recognized as empty still contributes its heading.
C2_NoTextNoResult ==
    (pc \in Returned /\ \A k \in 1..Len(doc) : doc[k] # "text")
        => (extracted_text = None /\ pc = "noresult")

\* C3 as stated: a document-level fault (digital extraction fault on any page,
\* or OCR rasterization failure) always ends in "no result", with no cleaning
\* or conversion, however many pages were read before it.
C3_FaultAlwaysNoResult ==
    (doc_fault /\ pc \in Returned)
        => (pc = "noresult" /\ cleaned_text = None /\ markdown_text = None)

\* C3 amended: a document-level fault is reported; it ends in "no result" with
\* no cleaning or conversion when OCR rasterization failed or the digital
\* extractor faulted before any page had contributed a block; when the digital
\* extractor faulted after pages had contributed blocks, the text accumulated
\* so far is returned and goes on to cleaning and conversion.
C3_FaultHandling ==
    doc_fault =>
        /\ \E k \in 1..Len(notes) :
               notes[k].kind \in {"error_pdfplumber", "error_converting"}
        /\ pc \in Returned =>
               IF extractor = "pdfplumber"
                  /\ \E k \in 1..i : doc[k] \in {"text", "blank"}
               THEN /\ pc \in {"cleaning", "converting", "done"}
                    /\ PageNumbers(extracted_text)
                           = IndicesIn(SubSeq(doc, 1, i), 1, {"text", "blank"})
               ELSE /\ pc = "noresult"
                    /\ extracted_text = None
                    /\ cleaned_text = None
                    /\ markdown_text = None

C3_Witness == doc_fault /\ pc = "done" /\ Len(PageNumbers(extracted_text)) >= 2

\* C4: in the OCR extractor every page is attempted in physical order, the
\* output holds exactly one "Page N" block per page whose recognition
\* succeeded, N its physical 1-based index, in increasing N, and each failed
\* page contributes no block and exactly one error notification.
C4_OcrPageFaultsSkipped ==
    (extractor = "ocr" /\ pc \in ExtractionOver /\ ~doc_fault) =>
        /\ [k \in 1..Len(calls) |-> calls[k].page] = [k \in 1..Len(doc) |-> k]
        /\ PageNumbers(text) = IndicesIn(doc, 1, PageKinds \ {"fault"})
        /\ \A k \in 1..Len(doc) :
               CountNotes("error_ocr", k) = (IF doc[k] = "fault" THEN 1 ELSE 0)

C4_Witness ==
    /\ extractor = "ocr"
    /\ pc = "finally"
    /\ ~doc_fault
    /\ \E k \in 1..(Len(doc) - 1) : doc[k] = "fault" /\ doc[k + 1] = "text"

C5_Edges ==
    /\ (pc' = "cleaning" /\ pc # "cleaning")
           => (pc = "finally" /\ ~AllWhitespace(text) /\ extracted_text' = text)
    /\ (pc' = "converting" /\ pc # "converting") => pc = "cleaning"
    /\ (pc' = "done" /\ pc # "done") => pc = "converting"
    /\ (pc' = "noresult" /\ pc # "noresult")
           => (pc = "finally" /\ AllWhitespace(text) /\ cleaned_text = None)
    /\ (pc' = "raised" /\ pc # "raised") => pc \in {"write"} \cup InTry
    /\ extractor' # extractor =>
           \/ extractor' = "none"
           \/ /\ extractor = "none"
              /\ extractor' = (IF enable_ocr THEN "ocr" ELSE "pdfplumber")

\* the steps a started run has left, at most: it decreases with every step
StepsLeft ==
    LET rank == CASE pc = "write" -> 7
                  [] pc = "select" -> 6
                  [] pc \in {"open", "raster"} -> 5
                  [] pc \in {"pages", "ocr_pages"} -> 4
                  [] pc = "finally" -> 3
                  [] pc = "cleaning" -> 2
                  [] pc = "converting" -> 1
                  [] OTHER -> 0
    IN  rank * (Len(doc) + 1) + (Len(doc) - i)

\* a started run has a next step: the write, the selection, the open, the
\* rasterization, the return, the cleaning and the conversion are always
\* possible, and a page loop either iterates (i < Len(doc)) or exits
\* (i = Len(doc))
HasNextStep ==
    pc \in {"pages", "ocr_pages"} => i <= Len(doc)

C5_Progress ==
    (pc \notin Ended \cup {"idle"}) => (StepsLeft' < StepsLeft /\ pc' # "idle")

C6_BlocksEqualPageCount ==
    (/\ extractor = "pdfplumber"
     /\ pc \in ExtractionOver
     /\ ~doc_fault
     /\ \E k \in 1..Len(doc) : doc[k] = "text")
        => PageNumbers(text) = [k \in 1..Len(doc) |-> k]

\* C6 amended: the digital extractor, without a fault, outputs exactly one
\* "Page N" block per page whose extracted text is not empty (a page yielding
\* no text contributes no block), N the page's physical 1-based index, in
\* strictly increasing order.
C6_BlocksOfPagesWithText ==
    (extractor = "pdfplumber" /\ pc \in ExtractionOver /\ ~doc_fault)
        => PageNumbers(text) = IndicesIn(doc, 1, {"text", "blank"})

C6_Witness ==
    /\ extractor = "pdfplumber"
    /\ pc = "finally"
    /\ ~doc_fault
    /\ \E k \in 1..(Len(doc) - 1) : doc[k] = "empty" /\ doc[k + 1] = "text"

\* C10: an invocation's outcome depends only on its own inputs; an invocation
\* given no recognition-engine path uses the default engine.  Violated: the
\* path an earlier invocation set stays in the module global.
C10_NoPathUsesDefaultEngine ==
    \A k \in 1..Len(calls) :
        tesseract_cmd_path = "" => calls[k].cmd = DefaultCmd

(***************************************************************************)
(* Claims about the cleaner (specification SpecClean).                     *)
(***************************************************************************)
RECURSIVE ShapeFrom(_, _, _)
\* a left-to-right reading of "<digits>/<digits><whitespace><4 digits>":
\* st 1 wants the first digit, 2 reads the first number, 3 wants a digit after
\* the slash, 4 reads the second number, 5 reads the whitespace, 6.. count the
\* digits of the last number
ShapeFrom(line, k, st) ==
    IF k > Len(line) THEN st = 5 + YearDigits
    ELSE LET c == line[k]
         IN  CASE st = 1 -> c \in Digit /\ ShapeFrom(line, k + 1, 2)
               [] st = 2 -> \/ c \in Digit /\ ShapeFrom(line, k + 1, 2)
                            \/ c = "/" /\ ShapeFrom(line, k + 1, 3)
               [] st = 3 -> c \in Digit /\ ShapeFrom(line, k + 1, 4)
               [] st = 4 -> \/ c \in Digit /\ ShapeFrom(line, k + 1, 4)
                            \/ c \in Space /\ ShapeFrom(line, k + 1, 5)
               [] st = 5 -> \/ c \in Space /\ ShapeFrom(line, k + 1, 5)
                            \/ c \in Digit /\ ShapeFrom(line, k + 1, 6)
               [] OTHER -> /\ st < 5 + YearDigits
                           /\ c \in Digit
                           /\ ShapeFrom(line, k + 1, st + 1)

\* the line is digits, a slash, digits, whitespace and a 4-digit number, and
\* nothing else
StrictHeaderShape(line) == ShapeFrom(line, 1, 1)

\* the same, with whitespace allowed before and after
PaddedHeaderShape(line) ==
    \E a \in 1..Len(line) : \E b \in a..Len(line) :
        /\ AllIn(line, 1, a - 1, Space)
        /\ AllIn(line, b + 1, Len(line), Space)
        /\ StrictHeaderShape(SubSeq(line, a, b))

NotStrictHeader(line) == ~StrictHeaderShape(line)
NotPaddedHeader(line) == ~PaddedHeaderShape(line)

\* C9 as stated: remove_page_headers removes exactly the lines that consist of
\* digits, a slash, digits, whitespace and a 4-digit number and nothing else;
\* every other line is kept unchanged, as often and in the same order.
C9_RemovesExactlyBareHeaders ==
    c_pc = "filtered" =>
        c_hdr = Join(SelectSeq(SplitLines(c_in), NotStrictHeader), <<"\n">>)

\* C9 amended: remove_page_headers removes exactly the lines that consist of
\* optional leading whitespace, digits, a slash, digits, whitespace, a 4-digit
\* number and optional trailing whitespace; every other line is kept
\* unchanged, as often and in the same order.
C9_RemovesExactlyPaddedHeaders ==
    c_pc = "filtered" =>
        /\ c_hdr = Join(SelectSeq(SplitLines(c_in), NotPaddedHeader), <<"\n">>)
        /\ \A k \in 1..Len(SplitLines(c_hdr)) :
               ~PaddedHeaderShape(SplitLines(c_hdr)[k])

C9_Witness ==
    /\ c_pc = "filtered"
    /\ c_hdr # <<>>
    /\ \E k \in 1..Len(SplitLines(c_in)) :
           /\ PaddedHeaderShape(SplitLines(c_in)[k])
           /\ ~StrictHeaderShape(SplitLines(c_in)[k])

\* C7 as stated: clean_extracted_text(clean_extracted_text(t)) equals
\* clean_extracted_text(t) for every input t.
C7_CleanerIdempotent ==
    c_pc = "recleaned" => c_out2 = c_out

\* the cleaned text gives a second run nothing to do: it has no line of the
\* header/footer shape, it does not end in an empty paragraph, and, when the
\* word-splitting pass ran, none of its tokens is long enough to be split
Settled(t) ==
    /\ \A k \in 1..Len(SplitLines(t)) : ~PaddedHeaderShape(SplitLines(t)[k])
    /\ t = <<>> \/ t[Len(t)] # "\n"
    /\ (c_flag /\ c_ninja) =>
           \A k \in 1..Len(SplitWs(t)) : Len(SplitWs(t)[k]) <= MaxTokenLen

\* C7 amended: clean_extracted_text(clean_extracted_text(t)) equals
\* clean_extracted_text(t) for every input t whose cleaned text has no line of
\* the header/footer shape, does not end in an empty paragraph and, when the
\* word-splitting pass ran, has no token longer than 15 characters.
C7_IdempotentOnSettledText ==
    (c_pc = "recleaned" /\ Settled(c_out)) => c_out2 = c_out

C7_Witness ==
    /\ c_pc = "recleaned"
    /\ Settled(c_out)
    /\ c_out # c_in
    /\ \E k \in 1..Len(c_in) : c_in[k] = "\n"
    /\ \E k \in 1..Len(c_out) : c_out[k] = "\n"
    /\ c_out2 = c_out

\* the places of t where a run of two or more line breaks starts between two
\* paragraphs (non-whitespace text before it and after it)
ParagraphBoundaries(t) ==
    {k \in 2..(Len(t) - 2) :
        /\ t[k] = "\n" /\ t[k + 1] = "\n" /\ t[k - 1] # "\n"
        /\ ~AllWhitespace(SubSeq(t, 1, k - 1))
        /\ ~AllWhitespace(SubSeq(t, k + 2, Len(t)))}

\* the places of t where a run of line breaks starts
BreakRuns(t) == {k \in 1..Len(t) : t[k] = "\n" /\ (k = 1 \/ t[k - 1] # "\n")}

\* the run of line breaks starting at k is exactly one blank line
IsBlankLine(t, k) ==
    /\ k + 1 <= Len(t)
    /\ t[k + 1] = "\n"
    /\ (k + 2 <= Len(t) => t[k + 2] # "\n")

\* C8: for every input and either setting of the word-splitting flag, every
\* paragraph boundary of the input is present in the cleaned text as exactly
\* one blank line, and no paragraph of the cleaned text contains a line break.
\* Violated: the word-splitting pass rejoins all tokens of the text with
\* single spaces.
C8_ParagraphsKept ==
    c_pc \in {"cleaned", "recleaned"} =>
        /\ \A k \in BreakRuns(c_out) : IsBlankLine(c_out, k)
        /\ Cardinality(BreakRuns(c_out)) >= Cardinality(ParagraphBoundaries(c_in))

====
